---- MODULE Spec2Model ----
(***************************************************************************)
(* Model of the Spotify listening-history ingestion pipeline               *)
(* (tools/ingest.py), its session provider (spotify_dashboard/database.py) *)
(* and the streams table (spotify_dashboard/models.py).                    *)
(***************************************************************************)
EXTENDS Integers, Sequences, FiniteSets, TLC

VARIABLES
  dir,            \* the data directory: entry name -> file content
  args,           \* parsed command line: dry_run, clear, batch_size
  run,            \* ordinal of the run of main() in progress (store clock)
  pc,             \* position of main() / ingest_file()
  json_files,     \* main: the discovered paths, in processing order
  fileIdx,        \* main: index in json_files of the file being ingested
  records,        \* ingest_file: the loaded raw records of the current file
  recIdx,         \* ingest_file: index of the next record of the for loop
  batch,          \* ingest_file: the in-memory batch
  total_inserted, \* ingest_file: per-file counter
  total_records,  \* main: the run's counter
  reported,       \* the total logged by "Ingestion terminee", -1 when none
  error,          \* the exception that ended the run, "none" when none
  session,        \* "none" | "open" | "closed"
  rows,           \* committed rows of streaming_history.streams
  pending,        \* rows inserted in the session's open transaction
  nextId,         \* next value of the id sequence
  rows0,          \* history: rows when the run started
  nextId0,        \* history: nextId when the run started
  rowsBeforeBatch,\* history: rows when the last insert_batch call started
  log,            \* history: the calls made by the run, in order
  probe           \* input/output of a pure function applied on its own

pipeVars == <<dir, args, run, pc, json_files, fileIdx, records, recIdx, batch,
              total_inserted, total_records, reported, error, session, rows,
              pending, nextId, rows0, nextId0, rowsBeforeBatch, log>>
vars == <<dir, args, run, pc, json_files, fileIdx, records, recIdx, batch,
          total_inserted, total_records, reported, error, session, rows,
          pending, nextId, rows0, nextId0, rowsBeforeBatch, log, probe>>

(***************************************************************************)
(* Bounds of the model.                                                    *)
(***************************************************************************)
MaxFiles == 2
MaxRecords == 3
MaxBatchSize == 2
MaxInitRows == 1

(***************************************************************************)
(* JSON / Python values: a tagged value, so that None, 0 and False differ. *)
(***************************************************************************)
None == [t |-> "none", v |-> 0]
StrV(n) == [t |-> "str", v |-> n]
IntV(n) == [t |-> "int", v |-> n]
BoolV(b) == [t |-> "bool", v |-> IF b THEN 1 ELSE 0]

EmptyDict == [k \in {} |-> None]

\* dict.get(key, default)
Get(record, key, default) ==
  IF key \in DOMAIN record THEN record[key] ELSE default

(***************************************************************************)
(* File names are sequences of code points.                                *)
(***************************************************************************)
\* "Streaming_History_Audio_"
Prefix == <<83,116,114,101,97,109,105,110,103,95,
            72,105,115,116,111,114,121,95,
            65,117,100,105,111,95>>
\* ".json"
Suffix == <<46,106,115,111,110>>

\* str.__lt__: lexicographic on code points, a proper prefix first
RECURSIVE StrLess(_, _)
StrLess(a, b) ==
  IF a = <<>> THEN b # <<>>
  ELSE IF b = <<>> THEN FALSE
  ELSE IF Head(a) # Head(b) THEN Head(a) < Head(b)
  ELSE StrLess(Tail(a), Tail(b))

\* fnmatch of a name against Streaming_History_Audio_*.json
GlobMatch(name) ==
  /\ Len(name) >= Len(Prefix) + Len(Suffix)
  /\ SubSeq(name, 1, Len(Prefix)) = Prefix
  /\ SubSeq(name, Len(name) - Len(Suffix) + 1, Len(name)) = Suffix

\* data_dir.glob(pattern): the matching entries, in no particular order
Glob(entries) == {name \in entries : GlobMatch(name)}

\* the elements of a set of names in descending order
RECURSIVE SortedDescending(_)
SortedDescending(S) ==
  IF S = {} THEN <<>>
  ELSE LET m == CHOOSE x \in S : \A y \in S \ {x} : StrLess(y, x)
       IN <<m>> \o SortedDescending(S \ {m})

\* sorted(): the ascending sequence of the elements of a set of names
RECURSIVE Sorted(_)
Sorted(S) ==
  IF S = {} THEN <<>>
  ELSE LET m == CHOOSE x \in S : \A y \in S \ {x} : StrLess(x, y)
       IN <<m>> \o Sorted(S \ {m})

discover_json_files(entries) == Sorted(Glob(entries))

(***************************************************************************)
(* Record Loader.  A file content is its JSON document: json is "invalid"  *)
(* (not JSON), "scalar" (a number, true, false or null), "object" (items   *)
(* are then its keys) or "array" (items are its elements).  An item is a   *)
(* dict (isdict, with d its key/value mapping) or anything else.           *)
(***************************************************************************)
Item(d) == [isdict |-> TRUE, d |-> d]
NonDict == [isdict |-> FALSE, d |-> EmptyDict]

\* json.load raises JSONDecodeError; "yield from" a non-iterable raises TypeError
load_error(content) ==
  IF content.json = "invalid" THEN "JSONDecodeError"
  ELSE IF content.json = "scalar" THEN "TypeError"
  ELSE "none"

\* list(load_json_records(filepath)) when no exception is raised
load_json_records(content) == content.items

(***************************************************************************)
(* Record Transformer.                                                     *)
(***************************************************************************)
\* the exception transform_record raises on a loaded item, "none" when none
transform_error(item) ==
  IF ~item.isdict THEN "TypeError"
  ELSE IF "ts" \notin DOMAIN item.d THEN "KeyError"
  ELSE IF "username" \notin DOMAIN item.d THEN "KeyError"
  ELSE "none"

\* the keys the tests expect of the dict transform_record builds
expected_fields ==
  {"ts", "username", "platform", "conn_country", "ip_addr_decrypted",
   "user_agent_decrypted", "ms_played", "track_name", "artist_name",
   "album_name", "spotify_track_uri", "reason_start", "reason_end", "shuffle",
   "skipped", "offline", "offline_timestamp", "incognito_mode", "source_file"}

\* the dict literal of transform_record
FieldMapping(record, source_file) ==
  [ ts                   |-> record["ts"],
    username             |-> record["username"],
    platform             |-> Get(record, "platform", None),
    conn_country         |-> Get(record, "conn_country", None),
    ip_addr_decrypted    |-> Get(record, "ip_addr_decrypted", None),
    user_agent_decrypted |-> Get(record, "user_agent_decrypted", None),
    ms_played            |-> Get(record, "ms_played", IntV(0)),
    track_name           |-> Get(record, "master_metadata_track_name", None),
    artist_name          |-> Get(record, "master_metadata_album_artist_name", None),
    album_name           |-> Get(record, "master_metadata_album_album_name", None),
    spotify_track_uri    |-> Get(record, "spotify_track_uri", None),
    reason_start         |-> Get(record, "reason_start", None),
    reason_end           |-> Get(record, "reason_end", None),
    shuffle              |-> Get(record, "shuffle", None),
    skipped              |-> Get(record, "skipped", None),
    offline              |-> Get(record, "offline", None),
    offline_timestamp    |-> Get(record, "offline_timestamp", None),
    incognito_mode       |-> Get(record, "incognito_mode", BoolV(FALSE)),
    source_file          |-> source_file ]

\* a transform_record whose duration has no default
transform_record_null_duration(record, source_file) ==
  [FieldMapping(record, source_file) EXCEPT
     !.ms_played = Get(record, "ms_played", None)]

\* a transform_record that starts from a copy of the raw record
transform_record_keeps_raw(record, source_file) ==
  [k \in expected_fields \cup DOMAIN record |->
     IF k \in expected_fields THEN FieldMapping(record, source_file)[k]
     ELSE record[k]]

\* a transform_record that lets the raw record's source_file win
transform_record_raw_label(record, source_file) ==
  [FieldMapping(record, source_file) EXCEPT
     !.source_file = Get(record, "source_file", source_file)]

transform_record(record, source_file) == FieldMapping(record, source_file)

(***************************************************************************)
(* Record Store: the streams table.                                        *)
(***************************************************************************)
\* a Stream the table refuses: ts and username are nullable=False, no default
\* a table whose ts and username columns accept NULL
ViolatesNotNullNever(rec) == FALSE

ViolatesNotNull(rec) == rec.ts = None \/ rec.username = None

\* the row stored for a Stream: id from the sequence, created_at from the
\* server, column defaults where the attribute is None
ToRow(rec, id, now) ==
  [ id                   |-> id,
    ts                   |-> rec.ts,
    username             |-> rec.username,
    platform             |-> rec.platform,
    conn_country         |-> rec.conn_country,
    ip_addr_decrypted    |-> rec.ip_addr_decrypted,
    user_agent_decrypted |-> rec.user_agent_decrypted,
    ms_played            |-> IF rec.ms_played = None THEN IntV(0) ELSE rec.ms_played,
    track_name           |-> rec.track_name,
    artist_name          |-> rec.artist_name,
    album_name           |-> rec.album_name,
    spotify_track_uri    |-> rec.spotify_track_uri,
    reason_start         |-> rec.reason_start,
    reason_end           |-> rec.reason_end,
    shuffle              |-> rec.shuffle,
    skipped              |-> rec.skipped,
    offline              |-> rec.offline,
    offline_timestamp    |-> rec.offline_timestamp,
    incognito_mode       |-> IF rec.incognito_mode = None THEN BoolV(FALSE)
                             ELSE rec.incognito_mode,
    source_file          |-> rec.source_file,
    created_at           |-> now ]

\* index of the first Stream of the batch the table refuses, 0 when none
FirstViolation(recs) ==
  IF \E k \in 1..Len(recs) : ViolatesNotNull(recs[k])
  THEN CHOOSE k \in 1..Len(recs) :
         /\ ViolatesNotNull(recs[k])
         /\ \A j \in 1..(k - 1) : ~ViolatesNotNull(recs[j])
  ELSE 0

\* INSERTs that give every row of the batch the same id
InsertedRowsSameId(recs, n, firstId, now) ==
  [k \in 1..n |-> ToRow(recs[k], firstId, now)]

\* the rows the INSERTs of the first n Streams of a batch put in the transaction
InsertedRows(recs, n, firstId, now) ==
  [k \in 1..n |-> ToRow(recs[k], firstId + k - 1, now)]

\* session.commit(): the transaction's rows become durable
CommitRows(committed, inTransaction) == committed \o inTransaction

\* session.rollback(): the transaction's rows are discarded
RollbackRows(committed, inTransaction) == committed

(***************************************************************************)
(* Inputs: the directories, command lines and stores a run starts from.    *)
(***************************************************************************)
\* "raw.json", the value of the source_file key of a raw record
RawSource == <<114,97,119,46,106,115,111,110>>

\* the j-th record of an export file: required fields, some optional ones,
\* a raw source_file key and a key the table does not know
GoodRecord(j) ==
  [k \in {"ts", "username", "ms_played", "master_metadata_track_name",
          "source_file", "episode_name"} |->
     CASE k = "ts" -> IntV(j)
       [] k = "username" -> StrV(1)
       [] k = "ms_played" -> IntV(100 + j)
       [] k = "master_metadata_track_name" -> StrV(j)
       [] k = "source_file" -> RawSource
       [] OTHER -> StrV(2)]

Without(d, key) == [k \in DOMAIN d \ {key} |-> d[k]]

BadKinds == {"missing_ts", "missing_username", "null_ts", "null_username",
             "not_a_dict"}

BadItem(j, kind) ==
  CASE kind = "missing_ts" -> Item(Without(GoodRecord(j), "ts"))
    [] kind = "missing_username" -> Item(Without(GoodRecord(j), "username"))
    [] kind = "null_ts" -> Item([GoodRecord(j) EXCEPT !["ts"] = None])
    [] kind = "null_username" -> Item([GoodRecord(j) EXCEPT !["username"] = None])
    [] OTHER -> NonDict

\* an array of n well-formed records
GoodFile(n) ==
  [json |-> "array", items |-> [j \in 1..n |-> Item(GoodRecord(j))]]

\* an array of n records, the p-th of which is bad
BadRecordFile(n, p, kind) ==
  [json |-> "array",
   items |-> [j \in 1..n |-> IF j = p THEN BadItem(j, kind)
                             ELSE Item(GoodRecord(j))]]

GoodFiles == {GoodFile(n) : n \in 0..MaxRecords}

\* files that are not an array of well-formed records
OddFiles ==
  {BadRecordFile(n, p, kind) :
     <<n, p>> \in {q \in (1..MaxRecords) \X (1..MaxRecords) : q[2] <= q[1]},
     kind \in BadKinds}
  \cup {[json |-> "invalid", items |-> <<>>],
        [json |-> "scalar", items |-> <<>>],
        [json |-> "object", items |-> <<>>],
        [json |-> "object", items |-> <<NonDict>>]}

\* "Streaming_History_Audio_<i>.json", i a digit
FileName(i) == Prefix \o <<48 + i>> \o Suffix
\* "other_file.txt"
OtherName == <<111,116,104,101,114,95,102,105,108,101,46,116,120,116>>
\* "old.json", the source_file of the rows of an earlier import
OldName == <<111,108,100,46,106,115,111,110>>

\* the directory of m export files, beside a file that is no export
DirOf(contents) ==
  [name \in {FileName(i) : i \in 1..Len(contents)} \cup {OtherName} |->
     IF name = OtherName THEN GoodFile(1)
     ELSE contents[CHOOSE i \in 1..Len(contents) : FileName(i) = name]]

\* the contents of m export files: well-formed files of any lengths, or one
\* odd file among well-formed files of one length
ContentSeqs(m) ==
  [1..m -> GoodFiles]
  \cup {[i \in 1..m |-> IF i = o THEN f ELSE g] :
          o \in 1..m, f \in OddFiles, g \in GoodFiles}

Directories == {DirOf(c) : c \in UNION {ContentSeqs(m) : m \in 0..MaxFiles}}

ArgSets == [dry_run : BOOLEAN, clear : BOOLEAN, batch_size : 0..MaxBatchSize]

\* the table after an earlier import of n records, and its sequence
InitRows(n) ==
  [k \in 1..n |-> ToRow(transform_record(GoodRecord(k), OldName), k, 0)]

\* a call made by the run: the operation, the index of the file being
\* ingested (0 outside ingest_file) and a count or index
Event(op, f, n) == [op |-> op, file |-> f, n |-> n]

\* the state main() starts from, for a directory and a command line of
\* the given sets
InitFrom(directories, argSets) ==
  /\ dir \in directories
  /\ args \in argSets
  /\ run = 1
  /\ pc = "start"
  /\ json_files = <<>>
  /\ fileIdx = 1
  /\ records = <<>>
  /\ recIdx = 1
  /\ batch = <<>>
  /\ total_inserted = 0
  /\ total_records = 0
  /\ reported = -1
  /\ error = "none"
  /\ session = "none"
  /\ \E n \in 0..MaxInitRows : rows = InitRows(n) /\ nextId = n + 1
  /\ pending = <<>>
  /\ rows0 = rows
  /\ nextId0 = nextId
  /\ rowsBeforeBatch = rows
  /\ log = <<>>
  /\ probe = 0

Init == InitFrom(Directories, ArgSets)

(***************************************************************************)
(* Decisions of main() and ingest_file().                                  *)
(***************************************************************************)
\* main: "if not json_files: ... return"
NothingToDoNever(files) == FALSE
NothingToDo(files) == files = <<>>

\* main: "if args.clear and not args.dry_run"
ShouldClearIgnoresDryRun(a) == a.clear
ShouldClear(a) == a.clear /\ ~a.dry_run

\* a flush when the batch is longer than the batch size
FlushDueWhenOver(b, batch_size) == Len(b) > batch_size
\* a flush when the batch has exactly the batch size
FlushDueOnlyAtSize(b, batch_size) == Len(b) = batch_size

\* ingest_file: "if len(batch) >= batch_size"
FlushDue(b, batch_size) == Len(b) >= batch_size

\* ingest_file, dry run: "total_inserted += len(batch)"
DryRunCountsBatches(b) == IF b = <<>> THEN 0 ELSE 1
DryRunCount(b) == Len(b)

\* insert_batch: "return len(streams)"
\* "batch = []" after a flush in the loop
EmptiedNever(b) == b
Emptied(b) == <<>>

InsertCount(b) == Len(b)

\* TRUNCATE ... RESTART IDENTITY: the sequence starts again at its first value
RestartIdentity == 1

\* get_session, "except Exception": what the store holds after the handler
OnExceptionCommits(committed, inTransaction) == CommitRows(committed, inTransaction)
OnException(committed, inTransaction) == RollbackRows(committed, inTransaction)

\* ingest_file: what an exception of transform_record does to the loop
\* (it is not caught: the loop is left and the exception propagates)
PropagatesNever(err) == FALSE
Propagates(err) == err # "none"

(***************************************************************************)
(* main(): discovery, session, optional clear.                             *)
(***************************************************************************)
Discover ==
  /\ pc = "start"
  /\ json_files' = discover_json_files(DOMAIN dir)
  /\ log' = Append(log, Event("discover", 0, Len(json_files')))
  /\ pc' = IF NothingToDo(json_files') THEN "nofiles" ELSE "session"
  /\ UNCHANGED <<dir, args, run, fileIdx, records, recIdx, batch,
                 total_inserted, total_records, reported, error, session,
                 rows, pending, nextId, rows0, nextId0, rowsBeforeBatch, probe>>

\* "with get_session() as session": session = SessionLocal()
GetSession ==
  /\ pc = "session"
  /\ session' = "open"
  /\ total_records' = 0
  /\ log' = Append(log, Event("acquire", 0, 0))
  /\ pc' = IF ShouldClear(args) THEN "clear" ELSE "file"
  /\ UNCHANGED <<dir, args, run, json_files, fileIdx, records, recIdx, batch,
                 total_inserted, reported, error, rows, pending, nextId,
                 rows0, nextId0, rowsBeforeBatch, probe>>

\* clear_table with a TRUNCATE that leaves the sequence where it is
ClearTableKeepsSequence ==
  /\ pc = "clear"
  /\ rows' = <<>>
  /\ pending' = <<>>
  /\ log' = Append(log, Event("clear", 0, Len(rows)))
  /\ pc' = "file"
  /\ UNCHANGED <<dir, args, run, json_files, fileIdx, records, recIdx, batch,
                 total_inserted, total_records, reported, error, session,
                 nextId, rows0, nextId0, rowsBeforeBatch, probe>>

\* clear_table: TRUNCATE ... RESTART IDENTITY, then commit
ClearTable ==
  /\ pc = "clear"
  /\ rows' = <<>>
  /\ pending' = <<>>
  /\ nextId' = RestartIdentity
  /\ log' = Append(log, Event("clear", 0, Len(rows)))
  /\ pc' = "file"
  /\ UNCHANGED <<dir, args, run, json_files, fileIdx, records, recIdx, batch,
                 total_inserted, total_records, reported, error, session,
                 rows0, nextId0, rowsBeforeBatch, probe>>

(***************************************************************************)
(* ingest_file(): load, then transform / batch / flush record by record.   *)
(***************************************************************************)
\* "batch: list[dict] = []" at the start of ingest_file
NewBatchCarriesOver(old) == old
NewBatch(old) == <<>>

\* "records = list(load_json_records(filepath))"
LoadFile ==
  /\ pc = "file"
  /\ fileIdx <= Len(json_files)
  /\ LET content == dir[json_files[fileIdx]]
         err == load_error(content)
     IN /\ log' = Append(log, Event("load", fileIdx, 0))
        /\ IF err # "none"
           THEN /\ error' = err
                /\ pc' = "except"
                /\ UNCHANGED <<records, recIdx, batch, total_inserted>>
           ELSE /\ records' = load_json_records(content)
                /\ recIdx' = 1
                /\ batch' = NewBatch(batch)
                /\ total_inserted' = 0
                /\ pc' = "loop"
                /\ UNCHANGED error
  /\ UNCHANGED <<dir, args, run, json_files, fileIdx, total_records, reported,
                 session, rows, pending, nextId, rows0, nextId0,
                 rowsBeforeBatch, probe>>

\* one iteration of "for record in records", up to the flush it may start
TransformStep ==
  /\ pc = "loop"
  /\ recIdx <= Len(records)
  /\ LET item == records[recIdx]
         err == transform_error(item)
     IN /\ IF Propagates(err)
           THEN /\ error' = err
                /\ pc' = "except"
                /\ log' = Append(log, Event("transform", fileIdx, recIdx))
                /\ UNCHANGED <<recIdx, batch, total_inserted>>
           ELSE \* err is "none" here: the record is transformed and appended
                LET b == IF err = "none"
                         THEN Append(batch,
                                transform_record(item.d, json_files[fileIdx]))
                         ELSE batch
                    tr == Event("transform", fileIdx, recIdx)
                IN /\ recIdx' = recIdx + 1
                   /\ UNCHANGED error
                   /\ IF ~FlushDue(b, args.batch_size)
                      THEN /\ batch' = b
                           /\ pc' = "loop"
                           /\ log' = Append(log, tr)
                           /\ UNCHANGED total_inserted
                      ELSE IF args.dry_run
                      THEN /\ total_inserted' = total_inserted + DryRunCount(b)
                           /\ batch' = Emptied(b)
                           /\ pc' = "loop"
                           /\ log' = Append(Append(log, tr),
                                            Event("count", fileIdx, Len(b)))
                      ELSE /\ batch' = b
                           /\ pc' = "insert"
                           /\ log' = Append(log, tr)
                           /\ UNCHANGED total_inserted
  /\ UNCHANGED <<dir, args, run, json_files, fileIdx, records, total_records,
                 reported, session, rows, pending, nextId, rows0, nextId0,
                 rowsBeforeBatch, probe>>

\* the loop is over, and the last partial batch is forgotten
EndOfRecordsDropsTail ==
  /\ pc = "loop"
  /\ recIdx > Len(records)
  /\ pc' = "return"
  /\ UNCHANGED <<dir, args, run, json_files, fileIdx, records, recIdx, batch,
                 total_inserted, total_records, reported, error, session,
                 rows, pending, nextId, rows0, nextId0, rowsBeforeBatch, log,
                 probe>>

\* the loop is over: "if batch:", the last partial batch
EndOfRecords ==
  /\ pc = "loop"
  /\ recIdx > Len(records)
  /\ IF batch = <<>>
     THEN /\ pc' = "return"
          /\ UNCHANGED <<total_inserted, log>>
     ELSE IF args.dry_run
     THEN /\ total_inserted' = total_inserted + DryRunCount(batch)
          /\ pc' = "return"
          /\ log' = Append(log, Event("count", fileIdx, Len(batch)))
     ELSE /\ pc' = "tail_insert"
          /\ UNCHANGED <<total_inserted, log>>
  /\ UNCHANGED <<dir, args, run, json_files, fileIdx, records, recIdx, batch,
                 total_records, reported, error, session, rows, pending,
                 nextId, rows0, nextId0, rowsBeforeBatch, probe>>

\* insert_batch: "session.bulk_save_objects(streams)".  The INSERTs run in
\* the session's transaction, in order, up to the first one the table
\* refuses; the sequence values they drew are not given back.
BulkSave ==
  /\ pc \in {"insert", "tail_insert"}
  /\ rowsBeforeBatch' = rows
  /\ log' = Append(log, Event("insert", fileIdx, Len(batch)))
  /\ LET k == FirstViolation(batch)
     IN IF k = 0
        THEN /\ pending' = pending \o InsertedRows(batch, Len(batch), nextId, run)
             /\ nextId' = nextId + Len(batch)
             /\ pc' = IF pc = "insert" THEN "commit" ELSE "tail_commit"
             /\ UNCHANGED error
        ELSE /\ pending' = pending \o InsertedRows(batch, k - 1, nextId, run)
             /\ \E drawn \in (k - 1)..Len(batch) : nextId' = nextId + drawn
             /\ error' = "IntegrityError"
             /\ pc' = "except"
  /\ UNCHANGED <<dir, args, run, json_files, fileIdx, records, recIdx, batch,
                 total_inserted, total_records, reported, session, rows,
                 rows0, nextId0, probe>>

\* an insert_batch that leaves the commit to the end of the session
CommitBatchDeferred ==
  /\ pc \in {"commit", "tail_commit"}
  /\ UNCHANGED <<rows, pending>>
  /\ total_inserted' = total_inserted + InsertCount(batch)
  /\ log' = Append(log, Event("commit", fileIdx, 0))
  /\ IF pc = "commit"
     THEN batch' = Emptied(batch) /\ pc' = "loop"
     ELSE batch' = batch /\ pc' = "return"
  /\ UNCHANGED <<dir, args, run, json_files, fileIdx, records, recIdx,
                 total_records, reported, error, session, nextId, rows0,
                 nextId0, rowsBeforeBatch, probe>>

\* insert_batch: "session.commit(); return len(streams)", and the caller's
\* "total_inserted += ..." and, in the loop, "batch = []"
CommitBatch ==
  /\ pc \in {"commit", "tail_commit"}
  /\ rows' = CommitRows(rows, pending)
  /\ pending' = <<>>
  /\ total_inserted' = total_inserted + InsertCount(batch)
  /\ log' = Append(log, Event("commit", fileIdx, Len(pending)))
  /\ IF pc = "commit"
     THEN batch' = Emptied(batch) /\ pc' = "loop"
     ELSE batch' = batch /\ pc' = "return"
  /\ UNCHANGED <<dir, args, run, json_files, fileIdx, records, recIdx,
                 total_records, reported, error, session, nextId, rows0,
                 nextId0, rowsBeforeBatch, probe>>

\* "for filepath in json_files": the position of the file after the i-th
NextFileSkipsOne(i) == i + 2
NextFile(i) == i + 1

\* "return total_inserted" and main's "total_records += count"
ReturnFromFile ==
  /\ pc = "return"
  /\ total_records' = total_records + total_inserted
  /\ fileIdx' = NextFile(fileIdx)
  /\ log' = Append(log, Event("file_done", fileIdx, total_inserted))
  /\ pc' = "file"
  /\ UNCHANGED <<dir, args, run, json_files, records, recIdx, batch,
                 total_inserted, reported, error, session, rows, pending,
                 nextId, rows0, nextId0, rowsBeforeBatch, probe>>

(***************************************************************************)
(* get_session(): the two ways out of the with block.                      *)
(***************************************************************************)
\* normal exit: session.commit(), session.close(), then main logs the total
ExitSession ==
  /\ pc = "file"
  /\ fileIdx > Len(json_files)
  /\ rows' = CommitRows(rows, pending)
  /\ pending' = <<>>
  /\ session' = "closed"
  /\ reported' = total_records
  /\ log' = Append(Append(log, Event("commit", 0, Len(pending))), Event("close", 0, 0))
  /\ pc' = "completed"
  /\ UNCHANGED <<dir, args, run, json_files, fileIdx, records, recIdx, batch,
                 total_inserted, total_records, error, nextId, rows0, nextId0,
                 rowsBeforeBatch, probe>>

\* an exception left the block: session.rollback(), raise, session.close()
ExceptSession ==
  /\ pc = "except"
  /\ rows' = OnException(rows, pending)
  /\ pending' = <<>>
  /\ session' = "closed"
  /\ log' = Append(Append(log, Event("rollback", 0, Len(pending))), Event("close", 0, 0))
  /\ pc' = "aborted"
  /\ UNCHANGED <<dir, args, run, json_files, fileIdx, records, recIdx, batch,
                 total_inserted, total_records, reported, error, nextId, rows0,
                 nextId0, rowsBeforeBatch, probe>>

\* The process is killed while a real run works on a batch: between two
\* records of an unflushed batch, or between bulk_save_objects and commit.
\* No handler runs; the server rolls back the transaction of the connection
\* that went away.
KillCommitsInFlight ==
  /\ ~args.dry_run
  /\ \/ pc = "loop" /\ batch # <<>>
     \/ pc \in {"commit", "tail_commit"}
  /\ rows' = CommitRows(rows, pending)
  /\ pending' = <<>>
  /\ error' = "killed"
  /\ log' = Append(log, Event("kill", fileIdx, Len(pending)))
  /\ pc' = "killed"
  /\ UNCHANGED <<dir, args, run, json_files, fileIdx, records, recIdx, batch,
                 total_inserted, total_records, reported, session, nextId,
                 rows0, nextId0, rowsBeforeBatch, probe>>

Kill ==
  /\ ~args.dry_run
  /\ \/ pc = "loop" /\ batch # <<>>
     \/ pc \in {"commit", "tail_commit"}
  /\ rows' = RollbackRows(rows, pending)
  /\ pending' = <<>>
  /\ error' = "killed"
  /\ log' = Append(log, Event("kill", fileIdx, Len(pending)))
  /\ pc' = "killed"
  /\ UNCHANGED <<dir, args, run, json_files, fileIdx, records, recIdx, batch,
                 total_inserted, total_records, reported, session, nextId,
                 rows0, nextId0, rowsBeforeBatch, probe>>

Next ==
  \/ Discover
  \/ GetSession
  \/ ClearTable
  \/ LoadFile
  \/ TransformStep
  \/ EndOfRecords
  \/ BulkSave
  \/ CommitBatch
  \/ ReturnFromFile
  \/ ExitSession
  \/ ExceptSession
  \/ Kill

Spec == Init /\ [][Next]_vars

(***************************************************************************)
(* The pure functions on their own: discover_json_files over directory     *)
(* listings, transform_record over raw records.  The pipeline is idle.     *)
(***************************************************************************)
IdlePipeline ==
  /\ dir = DirOf(<<>>)
  /\ args = [dry_run |-> FALSE, clear |-> FALSE, batch_size |-> 1]
  /\ run = 1
  /\ pc = "idle"
  /\ json_files = <<>>
  /\ fileIdx = 1
  /\ records = <<>>
  /\ recIdx = 1
  /\ batch = <<>>
  /\ total_inserted = 0
  /\ total_records = 0
  /\ reported = -1
  /\ error = "none"
  /\ session = "none"
  /\ rows = <<>>
  /\ pending = <<>>
  /\ nextId = 1
  /\ rows0 = <<>>
  /\ nextId0 = 1
  /\ rowsBeforeBatch = <<>>
  /\ log = <<>>

\* names a listing may hold: "Streaming_History_Audio_<stem>.json" for the
\* stems "", "2", "20", "21", "2 (1)", and names that are no audio export
Stems == {<<>>, <<50>>, <<50,48>>, <<50,49>>, <<50,32,40,49,41>>}
\* "Streaming_History_Video_2.json"
VideoName ==
  <<83,116,114,101,97,109,105,110,103,95,72,105,115,116,111,114,121,95,
    86,105,100,101,111,95,50>> \o Suffix
\* "random_file.json"
RandomName == <<114,97,110,100,111,109,95,102,105,108,101>> \o Suffix
EntryNames ==
  {Prefix \o stem \o Suffix : stem \in Stems}
  \cup {VideoName, RandomName, OtherName,
        Prefix \o <<50>> \o Suffix \o <<46,98,97,107>>,   \* "....json.bak"
        <<120>> \o Prefix \o <<50>> \o Suffix,             \* "xStreaming..."
        Prefix \o <<50>>}                                  \* no ".json"

InitDiscover ==
  /\ IdlePipeline
  /\ \E entries \in SUBSET EntryNames :
        probe = [entries |-> entries, done |-> FALSE, out |-> <<>>]

ProbeDiscover ==
  /\ ~probe.done
  /\ probe' = [probe EXCEPT !.done = TRUE,
                            !.out = discover_json_files(probe.entries)]
  /\ UNCHANGED pipeVars

NextDiscover == ProbeDiscover

SpecDiscover == InitDiscover /\ [][NextDiscover]_vars

\* raw keys transform_record reads with a default
OptionalRawKeys ==
  {"platform", "conn_country", "ip_addr_decrypted", "user_agent_decrypted",
   "ms_played", "master_metadata_track_name",
   "master_metadata_album_artist_name", "master_metadata_album_album_name",
   "spotify_track_uri", "reason_start", "reason_end", "shuffle", "skipped",
   "offline", "offline_timestamp", "incognito_mode"}

\* raw keys transform_record does not read
OtherRawKeys == {"source_file", "episode_name", "track_name"}

\* raw records: any of the required keys, none, one or all of the optional
\* keys, any of the other keys; every value is v, but that of source_file
RawRecords ==
  {[k \in req \cup opt \cup oth |-> IF k = "source_file" THEN RawSource ELSE v] :
     req \in SUBSET {"ts", "username"},
     opt \in {{}, OptionalRawKeys} \cup {{k} : k \in OptionalRawKeys},
     oth \in SUBSET OtherRawKeys,
     v \in {StrV(1), None}}

InitTransform ==
  /\ IdlePipeline
  /\ \E record \in RawRecords, label \in {FileName(1), OldName} :
        probe = [record |-> record, label |-> label, done |-> FALSE,
                 error |-> "none", out |-> EmptyDict]

ProbeTransform ==
  /\ ~probe.done
  /\ LET err == transform_error(Item(probe.record))
     IN probe' = [probe EXCEPT
                    !.done = TRUE,
                    !.error = err,
                    !.out = IF err = "none"
                            THEN transform_record(probe.record, probe.label)
                            ELSE EmptyDict]
  /\ UNCHANGED pipeVars

NextTransform == ProbeTransform

SpecTransform == InitTransform /\ [][NextTransform]_vars

(***************************************************************************)
(* Two runs of main() in a row on one directory and one table: after a     *)
(* real run has completed, the command is run again, with or without the   *)
(* clear flag.  The second run starts from the table and the sequence the  *)
(* first one left; probe keeps what the first run started from, left, and  *)
(* whether it cleared.                                                     *)
(***************************************************************************)
\* directories of well-formed, non-empty export files, or of one odd file
RerunDirectories ==
  {DirOf(c) : c \in UNION {[1..m -> GoodFiles \ {GoodFile(0)}] : m \in 0..MaxFiles}}
  \cup {DirOf(<<f>>) : f \in OddFiles}

InitRerun ==
  /\ Init
  /\ dir \in RerunDirectories

\* the process of the first run has exited; main() starts again
NextRun ==
  /\ run = 1
  /\ pc = "completed"
  /\ ~args.dry_run
  /\ run' = run + 1
  /\ \E c \in BOOLEAN : args' = [args EXCEPT !.clear = c]
  /\ pc' = "start"
  /\ json_files' = <<>>
  /\ fileIdx' = 1
  /\ records' = <<>>
  /\ recIdx' = 1
  /\ batch' = <<>>
  /\ total_inserted' = 0
  /\ total_records' = 0
  /\ reported' = -1
  /\ error' = "none"
  /\ session' = "none"
  /\ pending' = <<>>
  /\ rows0' = rows
  /\ nextId0' = nextId
  /\ rowsBeforeBatch' = rows
  /\ log' = <<>>
  /\ probe' = [start |-> rows0, left |-> rows, cleared |-> \E i \in DOMAIN log : log[i].op = "clear"]
  /\ UNCHANGED <<dir, rows, nextId>>

NextRerun ==
  \/ Next
  \/ NextRun

SpecRerun == InitRerun /\ [][NextRerun]_vars

(***************************************************************************)
(* One run of main() with a batch size that is zero or negative:           *)
(* "--batch-size" is read with type=int and no check, so the command line  *)
(* accepts them.  The run is not left idle: a step that can be taken is    *)
(* taken.                                                                  *)
(***************************************************************************)
NonPositiveArgSets ==
  [dry_run : BOOLEAN, clear : BOOLEAN, batch_size : {0, -1}]

InitNonPositive == InitFrom(RerunDirectories, NonPositiveArgSets)

SpecNonPositive == InitNonPositive /\ [][Next]_vars /\ WF_vars(Next)

(***************************************************************************)
(* get_session() on its own, around any caller's block.  The block is a    *)
(* script of session uses: "add" puts a row in the transaction, "commit"   *)
(* commits it, "raise" raises an Exception and "interrupt" a BaseException *)
(* that is no Exception (KeyboardInterrupt, SystemExit).  The commit that  *)
(* follows the block succeeds or raises.                                   *)
(***************************************************************************)
MaxBlockOps == 3

BlockOps == {"add", "commit", "raise", "interrupt"}

BlockScripts == UNION {[1..n -> BlockOps] : n \in 0..MaxBlockOps}

\* "except Exception": the handler runs for an Exception only
Catches(exc) == exc = "Exception"

\* the handler's "raise": the exception goes on to the caller
ReraisesNever(exc) == "none"
Reraises(exc) == exc

InitSession ==
  /\ IdlePipeline
  /\ \E script \in BlockScripts, ok \in BOOLEAN, n \in 0..1 :
        probe = [pc |-> "enter", script |-> script, commitOk |-> ok,
                 durable |-> [k \in 1..n |-> 0], tx |-> <<>>, calls |-> <<>>,
                 exc |-> "none", raised |-> "none", where |-> "none",
                 durableSeen |-> <<>>, txSeen |-> <<>>]

\* "session = SessionLocal()" and the yield
SessionEnter ==
  /\ probe.pc = "enter"
  /\ probe' = [probe EXCEPT !.pc = "block",
                            !.calls = Append(@, "SessionLocal")]
  /\ UNCHANGED pipeVars

\* the caller's block uses the session once
BlockStep ==
  /\ probe.pc = "block"
  /\ probe.script # <<>>
  /\ LET op == Head(probe.script)
         rest == Tail(probe.script)
     IN probe' =
          CASE op = "add" ->
                 [probe EXCEPT !.script = rest,
                               !.tx = Append(@, Len(probe.durable) + Len(@) + 1)]
            [] op = "commit" ->
                 [probe EXCEPT !.script = rest,
                               !.durable = CommitRows(@, probe.tx),
                               !.tx = <<>>]
            [] OTHER ->
                 LET exc == IF op = "raise" THEN "Exception"
                            ELSE "BaseException"
                 IN [probe EXCEPT !.script = rest,
                                  !.exc = exc,
                                  !.where = "block",
                                  !.durableSeen = probe.durable,
                                  !.txSeen = probe.tx,
                                  !.pc = IF Catches(exc) THEN "except"
                                         ELSE "finally"]
  /\ UNCHANGED pipeVars

\* the block returns: "session.commit()"
BlockReturn ==
  /\ probe.pc = "block"
  /\ probe.script = <<>>
  /\ probe' =
       IF probe.commitOk
       THEN [probe EXCEPT !.calls = Append(@, "commit"),
                          !.durableSeen = probe.durable,
                          !.txSeen = probe.tx,
                          !.durable = CommitRows(@, probe.tx),
                          !.tx = <<>>,
                          !.pc = "finally"]
       ELSE [probe EXCEPT !.calls = Append(@, "commit"),
                          !.durableSeen = probe.durable,
                          !.txSeen = probe.tx,
                          !.exc = "Exception",
                          !.where = "commit",
                          !.pc = "except"]
  /\ UNCHANGED pipeVars

\* "except Exception: session.rollback(); raise"
Handler ==
  /\ probe.pc = "except"
  /\ probe' = [probe EXCEPT !.calls = Append(@, "rollback"),
                            !.durable = OnException(@, probe.tx),
                            !.tx = <<>>,
                            !.exc = Reraises(@),
                            !.pc = "finally"]
  /\ UNCHANGED pipeVars

\* "finally: session.close()": the connection is released, and what its
\* transaction still holds is discarded; a pending exception goes on
Finally ==
  /\ probe.pc = "finally"
  /\ probe' = [probe EXCEPT !.calls = Append(@, "close"),
                            !.durable = RollbackRows(@, probe.tx),
                            !.tx = <<>>,
                            !.raised = probe.exc,
                            !.pc = "done"]
  /\ UNCHANGED pipeVars

NextSession ==
  \/ SessionEnter
  \/ BlockStep
  \/ BlockReturn
  \/ Handler
  \/ Finally

SpecSession == InitSession /\ [][NextSession]_vars

(***************************************************************************)
(* Quantities the properties speak of.                                     *)
(***************************************************************************)
\* the number of records of the files of a sequence of names
RECURSIVE SumRecords(_)
SumRecords(files) ==
  IF files = <<>> THEN 0
  ELSE Len(dir[Head(files)].items) + SumRecords(Tail(files))

\* the rows written by commits of the run, as the log counts them
RECURSIVE SumCommits(_)
SumCommits(l) ==
  IF l = <<>> THEN 0
  ELSE (IF Head(l).op = "commit" THEN Head(l).n ELSE 0) + SumCommits(Tail(l))

Happened(op) == \E i \in DOMAIN log : log[i].op = op

\* rows created by the run in progress
CreatedNow == {k \in DOMAIN rows : rows[k].created_at = run}

\* rows of the start of the run the run has not removed
Survivors == IF Happened("clear") THEN 0 ELSE Len(rows0)

\* the event is a load or a transform that raises
Raises(e) ==
  \/ e.op = "load" /\ load_error(dir[json_files[e.file]]) # "none"
  \/ /\ e.op = "transform"
     /\ transform_error(dir[json_files[e.file]].items[e.n]) # "none"

(***************************************************************************)
(* C1: for every batch size >= 1, a run that completes, dry or real,       *)
(* reports the sum of the record counts of the discovered files; so a      *)
(* dry run and a real run of one directory report the same total.          *)
(***************************************************************************)
C1_SameTotalDryAndReal ==
  (pc = "completed" /\ args.batch_size >= 1) =>
     reported = SumRecords(json_files)

C1_Witness ==
  /\ pc = "completed"
  /\ args.dry_run
  /\ args.batch_size = 2
  /\ Len(json_files) = 2
  /\ reported = 6

(***************************************************************************)
(* C2: a real run that completes has created as many rows as the           *)
(* discovered files hold records, and reports that number; without clear   *)
(* the table has grown by exactly that number.                             *)
(***************************************************************************)
C2_RowsAddedEqualRecords ==
  (pc = "completed" /\ ~args.dry_run) =>
     /\ Cardinality(CreatedNow) = SumRecords(json_files)
     /\ reported = SumRecords(json_files)
     /\ Len(rows) = Survivors + SumRecords(json_files)

C2_Witness ==
  /\ pc = "completed"
  /\ ~args.dry_run
  /\ ~args.clear
  /\ args.batch_size = 2
  /\ Len(json_files) = 2
  /\ rows0 # <<>>
  /\ Cardinality(CreatedNow) = 6

(***************************************************************************)
(* C3: when the insert of a batch fails, the table holds after the failure *)
(* exactly the rows it held when that batch started: no row of the failed  *)
(* batch, and every row of each batch committed earlier in the run.        *)
(***************************************************************************)
C3_BatchInsertAtomic ==
  (error = "IntegrityError" /\ pc \in {"except", "aborted"}) =>
     /\ rows = rowsBeforeBatch
     /\ Len(rows) = Survivors + SumCommits(log)
     /\ Cardinality(CreatedNow) = SumCommits(log)

C3_Witness ==
  /\ error = "IntegrityError"
  /\ pc = "aborted"
  /\ SumCommits(log) = 2
  /\ \E i \in DOMAIN log : log[i].op = "rollback" /\ log[i].n = 1

(***************************************************************************)
(* C4: a real run with the clear flag that completes leaves exactly the    *)
(* records of the files in the table, with ids 1..k in input order, and    *)
(* no row of the table it started from.                                    *)
(***************************************************************************)
C4_ClearThenLoad ==
  (pc = "completed" /\ args.clear /\ ~args.dry_run) =>
     /\ Len(rows) = SumRecords(json_files)
     /\ \A k \in DOMAIN rows :
          /\ rows[k].id = k
          /\ rows[k].created_at = run
          /\ rows[k].source_file # OldName

C4_Witness ==
  /\ pc = "completed"
  /\ args.clear
  /\ ~args.dry_run
  /\ rows0 # <<>>
  /\ Len(rows) = 3

(***************************************************************************)
(* C5: in a dry run, with or without the clear flag, the table, the open   *)
(* transaction and the id sequence stay as they were when the run started. *)
(***************************************************************************)
C5_DryRunTouchesNothing ==
  args.dry_run =>
     /\ rows = rows0
     /\ nextId = nextId0
     /\ pending = <<>>
     /\ ~Happened("clear")
     /\ ~Happened("insert")

C5_Witness ==
  /\ args.dry_run
  /\ args.clear
  /\ pc = "completed"
  /\ rows0 # <<>>
  /\ reported = 3

(***************************************************************************)
(* C6: a load or a transform that raises is the last load or transform of  *)
(* the run: what follows it is only the rollback and the close of the      *)
(* session; the run is aborted and reports no total.                       *)
(***************************************************************************)
C6_ErrorAbortsRun ==
  \A i \in DOMAIN log :
     Raises(log[i]) =>
        /\ pc \in {"except", "aborted"}
        /\ error # "none"
        /\ reported = -1
        /\ fileIdx = log[i].file
        /\ \A j \in (i + 1)..Len(log) : log[j].op \in {"rollback", "close"}

C6_Witness ==
  /\ pc = "aborted"
  /\ error = "KeyError"
  /\ fileIdx = 1
  /\ Len(json_files) = 2
  /\ recIdx = 2
  /\ Len(records) = 3
  /\ batch # <<>>

(***************************************************************************)
(* C7: a raw record with ts and username and none of the optional fields   *)
(* is transformed without error into ms_played = 0, incognito_mode = False *)
(* and None for every other optional field.                                *)
(***************************************************************************)
C7_DefaultsForMissingFields ==
  ( /\ probe.done
    /\ {"ts", "username"} \subseteq DOMAIN probe.record
    /\ DOMAIN probe.record \cap OptionalRawKeys = {} ) =>
     /\ probe.error = "none"
     /\ probe.out.ms_played = IntV(0)
     /\ probe.out.incognito_mode = BoolV(FALSE)
     /\ \A f \in expected_fields \ {"ts", "username", "ms_played",
                                    "incognito_mode", "source_file"} :
          probe.out[f] = None

C7_Witness ==
  /\ probe.done
  /\ DOMAIN probe.record = {"ts", "username", "track_name"}
  /\ probe.record["ts"] = StrV(1)
  /\ probe.out.ms_played = IntV(0)

(***************************************************************************)
(* C8: whatever optional or unknown keys a raw record with ts and username *)
(* has, the keys of the transformed dict are exactly the 19 expected       *)
(* fields: no master_metadata_* key, no key the transformer does not know, *)
(* and a raw key that is not read gives no value to the field of its name. *)
(***************************************************************************)
C8_OutputKeySetFixed ==
  ( /\ probe.done
    /\ {"ts", "username"} \subseteq DOMAIN probe.record ) =>
     /\ probe.error = "none"
     /\ DOMAIN probe.out = expected_fields
     /\ Cardinality(DOMAIN probe.out) = 19
     /\ DOMAIN probe.out \cap
          {"master_metadata_track_name", "master_metadata_album_artist_name",
           "master_metadata_album_album_name", "episode_name"} = {}
     /\ (DOMAIN probe.record) \ expected_fields \subseteq
          (DOMAIN probe.record) \ (DOMAIN probe.out)
     /\ "master_metadata_track_name" \notin DOMAIN probe.record =>
          probe.out.track_name = None

C8_Witness ==
  /\ probe.done
  /\ OptionalRawKeys \cup OtherRawKeys \subseteq DOMAIN probe.record
  /\ probe.record["track_name"] = StrV(1)
  /\ DOMAIN probe.out = expected_fields

(***************************************************************************)
(* C9: discovery returns the entries named Streaming_History_Audio_*.json, *)
(* each once, in ascending order of name, and the empty list when the      *)
(* directory is empty or holds no such entry.                              *)
(***************************************************************************)
NamedLikeAnExport(name) ==
  \E n \in 0..(Len(name) - Len(Prefix) - Len(Suffix)) :
     name = Prefix \o SubSeq(name, Len(Prefix) + 1, Len(Prefix) + n) \o Suffix

C9_DiscoverySortedExact ==
  probe.done =>
     /\ {probe.out[i] : i \in DOMAIN probe.out}
          = {name \in probe.entries : NamedLikeAnExport(name)}
     /\ \A i, j \in DOMAIN probe.out :
          i < j => StrLess(probe.out[i], probe.out[j])
     /\ (\A name \in probe.entries : ~NamedLikeAnExport(name)) =>
          probe.out = <<>>

C9_Witness ==
  /\ probe.done
  /\ probe.entries = EntryNames
  /\ Len(probe.out) = 5
  /\ probe.out[1] = Prefix \o Suffix
  /\ probe.out[2] = Prefix \o <<50,32,40,49,41>> \o Suffix
  /\ probe.out[3] = Prefix \o <<50>> \o Suffix

(***************************************************************************)
(* C10: when discovery finds no file the run ends there: no session, no    *)
(* clear, no insert, the table and its sequence unchanged.                 *)
(***************************************************************************)
C10_NoFilesNoOp ==
  (pc # "start" /\ json_files = <<>>) =>
     /\ pc = "nofiles"
     /\ session = "none"
     /\ log = <<Event("discover", 0, 0)>>
     /\ rows = rows0
     /\ nextId = nextId0
     /\ pending = <<>>
     /\ ~ENABLED Next

C10_Witness ==
  /\ pc = "nofiles"
  /\ args.clear
  /\ ~args.dry_run
  /\ rows0 # <<>>

(***************************************************************************)
(* C11: loading a file that is valid JSON but no array of objects fails:   *)
(* the load raises, nothing of the file is handed to the transformer and   *)
(* the run does not go on.                                                 *)
(***************************************************************************)
ArrayOfObjects(content) ==
  /\ content.json = "array"
  /\ \A j \in DOMAIN content.items : content.items[j].isdict

C11_NonArrayFailsToLoad ==
  \A i \in DOMAIN log :
     ( /\ log[i].op = "load"
       /\ dir[json_files[log[i].file]].json # "invalid"
       /\ ~ArrayOfObjects(dir[json_files[log[i].file]]) ) =>
        /\ error # "none"
        /\ \A j \in (i + 1)..Len(log) : log[j].op \in {"rollback", "close"}

(***************************************************************************)
(* C12: for a batch size b >= 1, the writes (inserts, or counter           *)
(* increments of a dry run) of a file of n records that has been ingested  *)
(* are n \div b batches of b records, then one of n % b records when       *)
(* n % b > 0; no write is empty or larger than b.                          *)
(***************************************************************************)
\* the sizes of the writes the run issued for file f, in order
RECURSIVE FlushSizes(_, _)
FlushSizes(l, f) ==
  IF l = <<>> THEN <<>>
  ELSE (IF Head(l).op \in {"insert", "count"} /\ Head(l).file = f
        THEN <<Head(l).n>> ELSE <<>>) \o FlushSizes(Tail(l), f)

BatchesOf(n, b) ==
  [k \in 1..((n \div b) + (IF n % b > 0 THEN 1 ELSE 0)) |->
     IF k <= n \div b THEN b ELSE n % b]

C12_BatchBoundaries ==
  args.batch_size >= 1 =>
     /\ \A i \in DOMAIN log :
          log[i].op \in {"insert", "count"} =>
             log[i].n >= 1 /\ log[i].n <= args.batch_size
     /\ \A i \in DOMAIN log :
          log[i].op = "file_done" =>
             FlushSizes(log, log[i].file)
               = BatchesOf(Len(dir[json_files[log[i].file]].items),
                           args.batch_size)

C12_Witness ==
  /\ pc = "completed"
  /\ ~args.dry_run
  /\ args.batch_size = 2
  /\ Len(json_files) = 2
  /\ FlushSizes(log, 1) = <<2, 1>>
  /\ FlushSizes(log, 2) = <<2>>

(***************************************************************************)
(* C13: get_session commits when the block returns; when the block, or     *)
(* that commit, raises, the transaction is rolled back (by rollback() for  *)
(* an Exception, by close() for a KeyboardInterrupt or SystemExit) and the *)
(* exception reaches the caller; close() is called once, last.             *)
(***************************************************************************)
C13_CommitRollbackClose ==
  probe.pc = "done" =>
     LET c == probe.calls
     IN /\ c[Len(c)] = "close"
        /\ Cardinality({i \in DOMAIN c : c[i] = "close"}) = 1
        /\ probe.tx = <<>>
        /\ probe.where = "none" =>
             /\ c = <<"SessionLocal", "commit", "close">>
             /\ probe.raised = "none"
             /\ probe.durable = probe.durableSeen \o probe.txSeen
        /\ probe.where # "none" =>
             /\ probe.raised # "none"
             /\ probe.durable = probe.durableSeen
        /\ (probe.where = "block" /\ probe.raised = "Exception") =>
             c = <<"SessionLocal", "rollback", "close">>
        /\ probe.where = "commit" =>
             /\ c = <<"SessionLocal", "commit", "rollback", "close">>
             /\ probe.raised = "Exception"

C13_Witness ==
  /\ probe.pc = "done"
  /\ probe.where = "commit"
  /\ probe.txSeen # <<>>
  /\ probe.durableSeen # <<>>
  /\ probe.calls = <<"SessionLocal", "commit", "rollback", "close">>

\* the rows the commits of file f have written, as the log counts them
RECURSIVE CommitsOf(_, _)
CommitsOf(l, f) ==
  IF l = <<>> THEN 0
  ELSE (IF Head(l).op = "commit" /\ Head(l).file = f THEN Head(l).n ELSE 0)
       + CommitsOf(Tail(l), f)

(***************************************************************************)
(* C14: every record transformed from a file carries the file's name as    *)
(* source_file, whatever source_file the raw record has; so every row the  *)
(* run creates names the file it was loaded from: it names a discovered    *)
(* file, that file holds a record of its ts, and the rows naming a file    *)
(* are as many as the commits of that file wrote.                          *)
(***************************************************************************)
C14_SourceFileIsTheFileName ==
  /\ pc \in {"loop", "insert", "tail_insert", "commit", "tail_commit"} =>
       \A k \in DOMAIN batch : batch[k].source_file = json_files[fileIdx]
  /\ \A k \in DOMAIN pending : pending[k].source_file = json_files[fileIdx]
  /\ \A k \in CreatedNow :
       \E f \in DOMAIN json_files :
          /\ rows[k].source_file = json_files[f]
          /\ \E j \in DOMAIN dir[json_files[f]].items :
                /\ dir[json_files[f]].items[j].isdict
                /\ "ts" \in DOMAIN dir[json_files[f]].items[j].d
                /\ dir[json_files[f]].items[j].d["ts"] = rows[k].ts
  /\ \A f \in DOMAIN json_files :
       Cardinality({k \in CreatedNow : rows[k].source_file = json_files[f]})
         = CommitsOf(log, f)

C14_Witness ==
  /\ pc = "completed"
  /\ ~args.dry_run
  /\ Len(json_files) = 2
  /\ \E k \in CreatedNow : rows[k].source_file = json_files[2]
  /\ \A j \in DOMAIN dir[json_files[2]].items :
        dir[json_files[2]].items[j].d["source_file"] = RawSource

\* the ts of a loaded item, None when it has none
TsOf(item) ==
  IF item.isdict /\ "ts" \in DOMAIN item.d THEN item.d["ts"] ELSE None

\* the records of the files of a sequence of names, in order, each as the
\* pair of its file's name and its ts
RECURSIVE InputStream(_)
InputStream(files) ==
  IF files = <<>> THEN <<>>
  ELSE [j \in DOMAIN dir[Head(files)].items |->
          <<Head(files), TsOf(dir[Head(files)].items[j])>>]
       \o InputStream(Tail(files))

(***************************************************************************)
(* C15: when a real run without clear completes, the table is the table    *)
(* of the start of the run, unchanged, followed by one row per input       *)
(* record, in the order of the input: files in sorted order, records in    *)
(* file order; no record is missing and none is there twice.               *)
(***************************************************************************)
C15_EachRecordOnceInOrder ==
  (pc = "completed" /\ ~args.dry_run /\ ~args.clear) =>
     /\ Len(rows) >= Len(rows0)
     /\ SubSeq(rows, 1, Len(rows0)) = rows0
     /\ [k \in 1..(Len(rows) - Len(rows0)) |->
           <<rows[Len(rows0) + k].source_file, rows[Len(rows0) + k].ts>>]
          = InputStream(json_files)
     /\ \A k \in 1..(Len(rows) - Len(rows0)) :
           rows[Len(rows0) + k].created_at = run

C15_Witness ==
  /\ pc = "completed"
  /\ ~args.dry_run
  /\ ~args.clear
  /\ rows0 # <<>>
  /\ args.batch_size = 1
  /\ Len(json_files) = 2
  /\ Len(rows) = Len(rows0) + 4

\* the rows of the table and of the open transaction, in insertion order
Stored == rows \o pending

(***************************************************************************)
(* C16 as stated: ids are unique among stored rows, strictly increasing,   *)
(* and an id the table has given to a record is never given to another     *)
(* one, full-clears included.                                              *)
(***************************************************************************)
C16_IdNeverReused ==
  /\ \A j, k \in DOMAIN Stored : j < k => Stored[j].id < Stored[k].id
  /\ \A k \in DOMAIN Stored : \A j \in DOMAIN rows0 :
        Stored[k].id = rows0[j].id => Stored[k] = rows0[j]

(***************************************************************************)
(* C16, amended: ids are unique among stored rows and strictly increasing  *)
(* in insertion order, and below the sequence's next value; as long as no  *)
(* full-clear has restarted the sequence, the sequence has not gone back   *)
(* and a new row's id is above every id given before.  A full-clear        *)
(* restarts the ids at 1.                                                  *)
(***************************************************************************)
C16_IdUniqueIncreasingUntilClear ==
  /\ \A j, k \in DOMAIN Stored : j < k => Stored[j].id < Stored[k].id
  /\ \A k \in DOMAIN Stored : Stored[k].id >= 1 /\ Stored[k].id < nextId
  /\ ~Happened("clear") =>
       /\ nextId >= nextId0
       /\ \A k \in DOMAIN Stored :
            \/ k <= Len(rows0) /\ Stored[k] = rows0[k]
            \/ k > Len(rows0) /\ Stored[k].id >= nextId0
  /\ Happened("clear") =>
       \A k \in DOMAIN Stored : Stored[k].id = k

C16_Witness ==
  /\ pc = "completed"
  /\ Happened("clear")
  /\ rows0 # <<>>
  /\ Len(rows) >= 2
  /\ rows[1].id = rows0[1].id
  /\ rows[1] # rows0[1]

\* the events of one kind, in the order of the log
EventsOf(op) == SelectSeq(log, LAMBDA e : e.op = op)

(***************************************************************************)
(* C17: the files are ingested in the sorted order of discovery, each      *)
(* once, one finishing before the next is loaded, and a run that completes *)
(* has gone through all of them; the clear happens in a real run with the  *)
(* clear flag only, once at most, before any load and any insert.          *)
(***************************************************************************)
C17_OneCyclePerFileInOrder ==
  /\ \A f \in 1..(Len(json_files) - 1) : StrLess(json_files[f], json_files[f + 1])
  /\ \A i \in DOMAIN EventsOf("load") : EventsOf("load")[i].file = i
  /\ \A i \in DOMAIN EventsOf("file_done") : EventsOf("file_done")[i].file = i
  /\ \A i \in DOMAIN log :
       (log[i].op = "load" /\ log[i].file > 1) =>
          /\ log[i - 1].op = "file_done"
          /\ log[i - 1].file = log[i].file - 1
  /\ \A i, j \in DOMAIN log :
       (i < j /\ log[j].file > 0) => log[i].file <= log[j].file
  /\ pc = "completed" =>
       /\ Len(EventsOf("load")) = Len(json_files)
       /\ Len(EventsOf("file_done")) = Len(json_files)
  /\ Len(EventsOf("clear")) <= 1
  /\ \A i \in DOMAIN log :
       log[i].op = "clear" =>
          /\ args.clear
          /\ ~args.dry_run
          /\ \A j \in 1..(i - 1) : log[j].op \in {"discover", "acquire"}
  /\ (Happened("load") /\ args.clear /\ ~args.dry_run) => Happened("clear")

C17_Witness ==
  /\ pc = "completed"
  /\ Len(json_files) = 2
  /\ Happened("clear")
  /\ Len(EventsOf("insert")) >= 2
  /\ Len(EventsOf("file_done")) = 2

(***************************************************************************)
(* C18: when a real run is aborted by an error or killed while it works on *)
(* a batch, the rows it has added are those of the batches whose commit    *)
(* completed: the first records of the input, in order, as many as the     *)
(* commits of the run wrote, every commit having written the whole batch   *)
(* of the insert before it, a batch of the batch size unless it is the     *)
(* last of its file; the rows of the start of the run are unchanged *)
(* unless cleared, and nothing of the unflushed or in-flight batch is in   *)
(* the table or left in a transaction.                                     *)
(***************************************************************************)
C18_AbortKeepsCommittedBatches ==
  (pc \in {"aborted", "killed"} /\ ~args.dry_run) =>
     LET base == Survivors
         n == SumCommits(log)
     IN /\ pending = <<>>
        /\ Len(rows) = base + n
        /\ SubSeq(rows, 1, base) = SubSeq(rows0, 1, base)
        /\ n <= Len(InputStream(json_files))
        /\ [k \in 1..n |-> <<rows[base + k].source_file, rows[base + k].ts>>]
             = SubSeq(InputStream(json_files), 1, n)
        /\ \A i \in DOMAIN log :
             (log[i].op = "commit" /\ log[i].file > 0) =>
                /\ log[i - 1].op = "insert"
                /\ log[i - 1].n = log[i].n
        /\ args.batch_size >= 1 =>
             \A f \in DOMAIN json_files :
                \/ CommitsOf(log, f) = Len(dir[json_files[f]].items)
                \/ CommitsOf(log, f) % args.batch_size = 0

C18_Witness ==
  /\ pc = "killed"
  /\ log[Len(log)].op = "kill"
  /\ log[Len(log)].n > 0
  /\ log[Len(log)].file = 2
  /\ CommitsOf(log, 1) > 0
  /\ CommitsOf(log, 2) > 0
  /\ rows0 # <<>>
  /\ ~Happened("clear")

(***************************************************************************)
(* C19: a batch is inserted and committed before the next record is        *)
(* transformed: the transaction is empty whenever the loop is about to     *)
(* transform, load or return, it never holds more than the batch being     *)
(* flushed, and an insert is followed at once by its commit or by the end  *)
(* of the run.  The session is acquired once, before any file is loaded,   *)
(* is open during all files, and is closed once, as the last call.         *)
(***************************************************************************)
C19_OneBatchTransactionOneSession ==
  /\ pending # <<>> =>
       /\ pc \in {"commit", "tail_commit", "except"}
       /\ Len(pending) <= Len(batch)
  /\ pc \in {"loop", "file", "return", "insert", "tail_insert"} => pending = <<>>
  /\ \A i \in DOMAIN log :
       log[i].op = "insert" =>
          IF i < Len(log)
          THEN log[i + 1].op \in {"commit", "rollback", "kill"}
          ELSE pc \in {"commit", "tail_commit", "except"}
  /\ Len(EventsOf("acquire")) <= 1
  /\ Len(EventsOf("close")) <= 1
  /\ \A i \in DOMAIN log :
       log[i].op \in {"clear", "load", "transform", "insert", "commit",
                      "file_done"} =>
          /\ \E j \in 1..(i - 1) : log[j].op = "acquire"
          /\ \A j \in 1..i : log[j].op # "close"
  /\ pc \in {"clear", "file", "loop", "insert", "tail_insert", "commit",
             "tail_commit", "return", "except"} => session = "open"
  /\ pc = "completed" =>
       /\ session = "closed"
       /\ log[Len(log)].op = "close"
       /\ \A f \in DOMAIN json_files :
            \E i \in DOMAIN log : log[i].op = "file_done" /\ log[i].file = f

C19_Witness ==
  /\ pc = "completed"
  /\ ~args.dry_run
  /\ Len(json_files) = 2
  /\ Len(EventsOf("acquire")) = 1
  /\ Len(EventsOf("close")) = 1
  /\ Len(EventsOf("insert")) >= 3
  /\ CommitsOf(log, 1) > 0
  /\ CommitsOf(log, 2) > 0

\* a row but for the time of its creation
Undated(row) == [row EXCEPT !.created_at = 0]

\* the rows that hold the record of a file's name and a ts, rows of the
\* table the first run started from left aside
CopiesOf(rec) ==
  {k \in DOMAIN rows : /\ rows[k].created_at >= 1
                       /\ <<rows[k].source_file, rows[k].ts>> = rec}

(***************************************************************************)
(* C20: after a real run has completed, a second real run of the same      *)
(* directory of N records completes: with the clear flag it leaves exactly *)
(* the N records, in input order, with ids 1..N, which is the table a      *)
(* first run with the clear flag had left; without the clear flag it adds  *)
(* N rows to the table the first run left, so that the table has 2N rows   *)
(* of the two runs and holds every record twice.                           *)
(***************************************************************************)
C20_RerunClearIdempotentElseDuplicates ==
  (run = 2 /\ pc = "completed") =>
     LET N == SumRecords(json_files)
         first == IF probe.cleared THEN 0 ELSE Len(probe.start)
     IN /\ Len(probe.left) = first + N
        /\ args.clear =>
             /\ Len(rows) = N
             /\ \A k \in DOMAIN rows : rows[k].id = k
             /\ [k \in DOMAIN rows |-> <<rows[k].source_file, rows[k].ts>>]
                  = InputStream(json_files)
             /\ probe.cleared =>
                  [k \in DOMAIN rows |-> Undated(rows[k])]
                    = [k \in DOMAIN probe.left |-> Undated(probe.left[k])]
        /\ ~args.clear =>
             /\ Len(rows) = Len(probe.left) + N
             /\ SubSeq(rows, 1, Len(probe.left)) = probe.left
             /\ Cardinality({k \in DOMAIN rows : rows[k].created_at >= 1}) = 2 * N
             /\ \A i \in DOMAIN InputStream(json_files) :
                  Cardinality(CopiesOf(InputStream(json_files)[i])) = 2

C20_Witness ==
  /\ run = 2
  /\ pc = "completed"
  /\ args.clear
  /\ ~probe.cleared
  /\ probe.start # <<>>
  /\ Len(json_files) = 2
  /\ Len(probe.left) = 5
  /\ Len(rows) = 4
  /\ rows[4].id = 4

\* the item is a record with the key, and a value for it that is not null
HasValue(item, key) ==
  /\ item.isdict
  /\ key \in DOMAIN item.d
  /\ item.d[key] # None

(***************************************************************************)
(* C21: every row of the table, and every row of the open transaction,     *)
(* has a ts and a username that are not null.  A run that completes has    *)
(* met no record without a ts or a username key, and a real run that       *)
(* completes has met no record with a null ts or username: the first fails *)
(* in the transformer, the second is refused by the table and aborts the   *)
(* run, and neither is among the rows.                                     *)
(***************************************************************************)
C21_RowsHaveTsAndUsername ==
  /\ \A k \in DOMAIN Stored :
       /\ Stored[k].ts # None
       /\ Stored[k].username # None
  /\ pc = "completed" =>
       \A f \in DOMAIN json_files : \A j \in DOMAIN dir[json_files[f]].items :
          LET item == dir[json_files[f]].items[j]
          IN /\ item.isdict
             /\ {"ts", "username"} \subseteq DOMAIN item.d
             /\ ~args.dry_run => HasValue(item, "ts") /\ HasValue(item, "username")
  /\ \A i \in DOMAIN log :
       ( /\ log[i].op = "transform"
         /\ LET item == dir[json_files[log[i].file]].items[log[i].n]
            IN ~(item.isdict /\ {"ts", "username"} \subseteq DOMAIN item.d) ) =>
          /\ error \in {"KeyError", "TypeError"}
          /\ \A j \in (i + 1)..Len(log) : log[j].op \in {"rollback", "close"}

C21_Witness ==
  /\ pc = "aborted"
  /\ error = "IntegrityError"
  /\ CreatedNow # {}
  /\ rows = rowsBeforeBatch
  /\ \E j \in DOMAIN dir[json_files[fileIdx]].items :
        LET item == dir[json_files[fileIdx]].items[j]
        IN /\ item.isdict
           /\ "username" \in DOMAIN item.d
           /\ item.d["username"] = None

\* the batch and the rows of the transaction come from the file in hand
OneSourceFile ==
  /\ \A k \in DOMAIN batch : batch[k].source_file = json_files[fileIdx]
  /\ \A k \in DOMAIN pending : pending[k].source_file = json_files[fileIdx]

(***************************************************************************)
(* C22 as stated: for a batch size b >= 1 the batch is shorter than b      *)
(* after every iteration, is empty when the cycle of a file starts and     *)
(* when it ends, and a written batch holds records of one file only.       *)
(***************************************************************************)
C22_BatchEmptyAtBothEnds ==
  args.batch_size >= 1 =>
     /\ pc = "loop" => Len(batch) < args.batch_size
     /\ (pc = "loop" /\ recIdx = 1) => batch = <<>>
     /\ pc = "return" => batch = <<>>
     /\ pc \in {"loop", "insert", "tail_insert", "commit", "tail_commit",
                "return"} => OneSourceFile

(***************************************************************************)
(* C22, amended: for a batch size b >= 1 the batch is shorter than b after *)
(* every iteration and is empty when the cycle of a file starts.  When the *)
(* cycle ends the batch is empty if the file's record count is a multiple  *)
(* of b; otherwise it still holds the remainder, which the last flush has  *)
(* counted or written and not removed.  The batch is local to the cycle:   *)
(* the next file starts from an empty one, and a written batch holds       *)
(* between 1 and b records, all of one file.                               *)
(***************************************************************************)
C22_BatchBelowSizeFreshPerFile ==
  args.batch_size >= 1 =>
     /\ pc = "loop" => Len(batch) < args.batch_size
     /\ (pc = "loop" /\ recIdx = 1) => batch = <<>>
     /\ pc = "return" =>
          /\ Len(batch) = Len(records) % args.batch_size
          /\ batch # <<>> =>
               /\ log[Len(log)].op \in {"commit", "count"}
               /\ log[Len(log)].file = fileIdx
               /\ log[Len(log)].n = Len(batch)
     /\ pc \in {"insert", "tail_insert", "commit", "tail_commit"} =>
          /\ Len(batch) >= 1
          /\ Len(batch) <= args.batch_size
     /\ pc \in {"loop", "insert", "tail_insert", "commit", "tail_commit",
                "return"} => OneSourceFile

C22_Witness ==
  /\ pc = "loop"
  /\ fileIdx = 2
  /\ recIdx = 1
  /\ batch = <<>>
  /\ args.batch_size = 2
  /\ ~args.dry_run
  /\ Len(dir[json_files[1]].items) = 3
  /\ CommitsOf(log, 1) = 3

\* main() has returned, has raised, or its process is gone
Terminated == pc \in {"nofiles", "completed", "aborted", "killed"}

\* what holds of every state of a run whose batch size is not positive
NonPositiveFlushes ==
  /\ args.batch_size <= 0
  /\ pc = "loop" => batch = <<>>
  /\ Len(batch) <= 1
  /\ \A i \in DOMAIN log :
       log[i].op \in {"insert", "count", "commit"} /\ log[i].file > 0 =>
          log[i].n = 1
  /\ \A i \in DOMAIN log :
       log[i].op = "transform" /\ ~Raises(log[i]) =>
          IF i < Len(log)
          THEN log[i + 1].op \in {"insert", "count", "kill"}
          ELSE pc = "insert"
  /\ pc = "completed" =>
       /\ reported = SumRecords(json_files)
       /\ ~args.dry_run =>
            /\ Len(rows) = Survivors + SumRecords(json_files)
            /\ [k \in 1..SumRecords(json_files) |->
                  <<rows[Survivors + k].source_file, rows[Survivors + k].ts>>]
                 = InputStream(json_files)

(***************************************************************************)
(* C23: with a batch size of zero or less every run terminates; every      *)
(* record is flushed alone, at once after its transformation, as a batch   *)
(* of one record, no batch is empty, and a run that completes reports the  *)
(* number of input records and, when real, has created one row per record, *)
(* in input order.                                                         *)
(***************************************************************************)
C23_NonPositiveBatchSize == []NonPositiveFlushes /\ <>Terminated

C23_Witness ==
  /\ pc = "completed"
  /\ args.batch_size = -1
  /\ ~args.dry_run
  /\ Len(json_files) = 2
  /\ reported = 5
  /\ Len(EventsOf("insert")) = 5
  /\ Len(EventsOf("commit")) = 6

====
